---- MODULE Spec2Model ----
(***************************************************************************)
(* Model of the manga inference service (src/inference/src/main.py):       *)
(* model initialisation, the /health, /ocr/detect and /ocr/text-only       *)
(* handlers, the tight bounding box, the per-line OCR loop and the debug   *)
(* image.                                                                  *)
(*                                                                         *)
(* Four specifications share the module:                                   *)
(*   SpecBBox  calculate_tight_bbox_from_lines applied to bounded blocks   *)
(*   SpecOcr   run_ocr_detection / generate_debug_image applied to bounded *)
(*             detector outputs                                            *)
(*   Spec      the service: startup, handlers, temp files, responses       *)
(*   SpecConc  the event loop: initialize_models step by step under        *)
(*             interleaved startup and request coroutines                  *)
(***************************************************************************)
EXTENDS Integers, Sequences, FiniteSets, TLC

\* ----- bounds of the model -----
MaxCoord == 2
MaxBBoxLines == 2
MaxPoints == 2
MaxBlocks == 2
MaxTotalLines == 2
MaxRequests == 2

\* ----- program constants -----
TruncLen == 30

VARIABLES
    blk,        \* SpecBBox: the text block handed to calculate_tight_bbox_from_lines
    bbox,       \* SpecBBox: the tuple it returned (<<>> before the call)
    bb_pc,      \* SpecBBox: "input" before the call, "returned" after
    ocr_in,     \* SpecOcr: image, detector output and environment of one call
    ocr_out,    \* SpecOcr: what the call returned or raised, and its effects
    ocr_pc,     \* SpecOcr: "input", then "detected" or "legacy"
    phase,                  \* "boot", "running" or "exited" (startup failed)
    text_detector,          \* the global is set (not None)
    manga_ocr,              \* the global is set (not None)
    detector_built,         \* TextDetector objects constructed so far
    ocr_built,              \* MangaOcr objects constructed so far
    GENERATE_DEBUG_IMAGES,  \* the environment configuration read at import
    reqs,                   \* the requests: parameters, position in the handler
                            \* (with its local tmp_file_path) and response
    fs,                     \* temp directory: name -> request whose upload it holds, 0 = no file
    health,                 \* the last /health response
    loop,                   \* SpecConc: the coroutines running on the event loop
    tasks                   \* SpecConc: position of startup_event (0) and of each request

bbVars == <<blk, bbox, bb_pc>>
ocrVars == <<ocr_in, ocr_out, ocr_pc>>
modelVars == <<text_detector, manga_ocr, detector_built, ocr_built>>
svcVars == <<phase, text_detector, manga_ocr, detector_built, ocr_built,
             GENERATE_DEBUG_IMAGES, reqs, fs, health>>
concVars == <<loop, tasks>>
vars == <<blk, bbox, bb_pc, ocr_in, ocr_out, ocr_pc, phase, text_detector,
          manga_ocr, detector_built, ocr_built, GENERATE_DEBUG_IMAGES, reqs,
          fs, health, loop, tasks>>

Requests == 1..MaxRequests
TmpNames == 1..MaxRequests

NoRequest ==
    [pc |-> "idle", endpoint |-> "", content_type |-> <<>>, original_path |-> FALSE,
     init_raised |-> FALSE,
     tmp |-> 0, created |-> FALSE, saved |-> FALSE, status |-> 0, detail |-> "", success |-> FALSE,
     debugImagePath |-> "", failure |-> "none", invoked |-> FALSE]

NoHealth == [status |-> 0, body |-> "", debug_images_enabled |-> FALSE]

\* Task 0 is startup_event, the others are the requests.
Tasks == 0..MaxRequests

NoTask ==
    [pos |-> "idle", endpoint |-> "", reached |-> FALSE,
     seen_detector |-> FALSE, seen_ocr |-> FALSE]

\* The event-loop variables of a specification that does not follow the coroutines.
ConcIdle ==
    /\ loop = {}
    /\ tasks = [t \in Tasks |-> NoTask]

\* The service variables of a specification that does not run the service.
SvcIdle ==
    /\ phase = "off"
    /\ text_detector = FALSE /\ manga_ocr = FALSE
    /\ detector_built = 0 /\ ocr_built = 0
    /\ GENERATE_DEBUG_IMAGES = FALSE
    /\ reqs = [r \in Requests |-> NoRequest]
    /\ fs = [n \in TmpNames |-> 0]
    /\ health = NoHealth
    /\ ConcIdle

(***************************************************************************)
(* Tight bounding box                                                      *)
(***************************************************************************)
Coords == 0..MaxCoord
Points == Coords \X Coords

\* lines_array() is a numpy array: n line polygons of k points each.
BBoxShapes == {s \in (0..MaxBBoxLines) \X (0..MaxPoints) : s[1] * s[2] <= MaxPoints}

\* The detector's rough block-level box, blk.xyxy.
RoughBoxes == {<<0, 0, MaxCoord, MaxCoord>>, <<1, 1, MaxCoord + 1, MaxCoord + 1>>}

BBoxBlocks ==
    UNION {[lines : [1..s[1] -> [1..s[2] -> Points]], xyxy : RoughBoxes] : s \in BBoxShapes}

\* all_points = []; for line in lines: all_points.extend(line)
RECURSIVE extend_all(_)
extend_all(lines) ==
    IF lines = <<>> THEN <<>> ELSE Head(lines) \o extend_all(Tail(lines))

\* np.min(all_points[:, col]) over a non-empty list of points
RECURSIVE np_min(_, _)
np_min(pts, col) ==
    IF Len(pts) = 1 THEN pts[1][col]
    ELSE LET m == np_min(Tail(pts), col)
         IN IF pts[1][col] < m THEN pts[1][col] ELSE m

\* np.max(all_points[:, col]) over a non-empty list of points
RECURSIVE np_max(_, _)
np_max(pts, col) ==
    IF Len(pts) = 1 THEN pts[1][col]
    ELSE LET m == np_max(Tail(pts), col)
         IN IF pts[1][col] > m THEN pts[1][col] ELSE m

\* A plausible slip: only the first line polygon is scanned.
calculate_tight_bbox_first_line_only(b) ==
    LET lines == b.lines
    IN IF Len(lines) = 0 THEN b.xyxy
       ELSE LET all_points == lines[1]
            IN IF Len(all_points) = 0 THEN b.xyxy
               ELSE <<np_min(all_points, 1), np_min(all_points, 2),
                      np_max(all_points, 1), np_max(all_points, 2)>>

calculate_tight_bbox_from_lines(b) ==
    LET lines == b.lines
    IN IF Len(lines) = 0 THEN b.xyxy
       ELSE LET all_points == extend_all(lines)
            IN IF Len(all_points) = 0 THEN b.xyxy
               ELSE <<np_min(all_points, 1), np_min(all_points, 2),
                      np_max(all_points, 1), np_max(all_points, 2)>>

BBoxIdle ==
    /\ blk = [lines |-> <<>>, xyxy |-> <<0, 0, 0, 0>>]
    /\ bbox = <<>>
    /\ bb_pc = "idle"

(***************************************************************************)
(* run_ocr_detection, generate_debug_image_with_text, generate_debug_image *)
(***************************************************************************)
\* What happens to one line of a block in the try body of the line loop:
\*   "text"        the crop is recognised as a non-empty string
\*   "empty"       the crop is recognised as ""
\*   "crop_error"  get_transformed_region / cv2.rotate / cvtColor raises
\*   "ocr_error"   manga_ocr(line_pil) raises
LineOutcomes == {"text", "empty", "crop_error", "ocr_error"}

\* What happens when the debug image is saved:
\*   "written"        cv2.imwrite returns True and the file exists
\*   "imwrite_false"  cv2.imwrite returns False
\*   "missing"        cv2.imwrite returns True but debug_path.exists() is False
\*   "error"          drawing or saving raises
DebugWrites == {"written", "imwrite_false", "missing", "error"}

\* Detector outputs: at most b blocks holding at most t lines together.
RECURSIVE BlockLists(_, _)
BlockLists(b, t) ==
    IF b = 0 THEN {<<>>}
    ELSE {<<>>} \cup
         UNION {{<<[vertical |-> v, lines |-> ls]>> \o rest :
                     v \in BOOLEAN, ls \in [1..k -> LineOutcomes],
                     rest \in BlockLists(b - 1, t - k)} : k \in 0..t}

OcrInput(m, i, d, bl, g, w) ==
    [models_set |-> m, img_loads |-> i, detector_ok |-> d, blk_list |-> bl,
     generate |-> g, debug_write |-> w]

\* GENERATE_DEBUG_IMAGES with the outcome of saving ("none": never attempted).
DebugCases == {<<FALSE, "none">>} \cup ({TRUE} \X DebugWrites)

OcrInputs ==
    {OcrInput(FALSE, TRUE, TRUE, <<>>, c[1], c[2]) : c \in DebugCases}
    \cup {OcrInput(TRUE, FALSE, TRUE, <<>>, c[1], c[2]) : c \in DebugCases}
    \cup {OcrInput(TRUE, TRUE, FALSE, <<>>, c[1], c[2]) : c \in DebugCases}
    \cup {OcrInput(TRUE, TRUE, TRUE, bl, c[1], c[2]) :
              bl \in BlockLists(MaxBlocks, MaxTotalLines), c \in DebugCases}

DebugEntry(kind, a, b) == [kind |-> kind, a |-> a, b |-> b]

\* blk.get_transformed_region(img, line_idx, ...): the crop of one line
get_transformed_region(blk_idx, line_idx) ==
    [blk |-> blk_idx, line |-> line_idx, rot |-> 0]

\* cv2.rotate(line_crop, cv2.ROTATE_90_CLOCKWISE)
cv2_rotate_90_clockwise(crop) == [crop EXCEPT !.rot = (@ + 90) % 360]

\* The string manga_ocr returns for a crop: one character naming the line.
manga_ocr_text(outcome, crop) ==
    IF outcome = "text" THEN <<<<crop.blk, crop.line>>>> ELSE <<>>

\* A plausible slip: every crop is rotated, whatever the block's orientation.
line_crop_always_rotated(b, blk_idx, line_idx) ==
    cv2_rotate_90_clockwise(get_transformed_region(blk_idx, line_idx))

\* lines 310-314: the crop handed to manga_ocr
line_crop_for_ocr(b, blk_idx, line_idx) ==
    LET line_crop == get_transformed_region(blk_idx, line_idx)
    IN IF b.vertical THEN cv2_rotate_90_clockwise(line_crop) ELSE line_crop

\* A plausible slip: the except branch logs the failure but appends nothing.
line_failed_nothing_appended(blk_idx, line_idx) ==
    [extracted |-> <<>>,
     debug |-> <<DebugEntry("line_failed", line_idx, blk_idx + 1)>>]

\* lines 323-325: the except branch of the line loop
line_failed(blk_idx, line_idx) ==
    [extracted |-> <<<<>>>>,
     debug |-> <<DebugEntry("line_failed", line_idx, blk_idx + 1)>>]

\* lines 307-325: the line loop from line_idx on (blk_idx, line_idx 0-based).
\* Returns extracted_lines, the debug entries added and the manga_ocr calls made.
RECURSIVE extract_lines(_, _, _)
extract_lines(b, blk_idx, line_idx) ==
    IF line_idx >= Len(b.lines)
    THEN [extracted |-> <<>>, debug |-> <<>>, calls |-> <<>>]
    ELSE LET outcome == b.lines[line_idx + 1]
             crop == line_crop_for_ocr(b, blk_idx, line_idx)
             called == outcome # "crop_error"
             failed == outcome \in {"crop_error", "ocr_error"}
             this == IF failed THEN line_failed(blk_idx, line_idx)
                     ELSE [extracted |-> <<manga_ocr_text(outcome, crop)>>,
                           debug |-> <<>>]
             rest == extract_lines(b, blk_idx, line_idx + 1)
         IN [extracted |-> this.extracted \o rest.extracted,
             debug |-> this.debug \o rest.debug,
             calls |-> (IF called THEN <<crop>> ELSE <<>>) \o rest.calls]

\* "".join(extracted_lines)
RECURSIVE join(_)
join(strs) == IF strs = <<>> THEN <<>> ELSE Head(strs) \o join(Tail(strs))

\* lines 300-344: the block loop from blk_idx on (0-based)
RECURSIVE process_blocks(_, _)
process_blocks(blk_list, blk_idx) ==
    IF blk_idx >= Len(blk_list)
    THEN [results |-> <<>>, debug |-> <<>>, calls |-> <<>>]
    ELSE LET b == blk_list[blk_idx + 1]
             ex == extract_lines(b, blk_idx, 0)
             result_blk == [vertical |-> b.vertical,
                            lines |-> Len(b.lines),
                            text |-> join(ex.extracted),
                            text_lines |-> ex.extracted]
             rest == process_blocks(blk_list, blk_idx + 1)
         IN [results |-> <<result_blk>> \o rest.results,
             debug |-> ex.debug
                       \o <<DebugEntry("block", blk_idx + 1, Len(b.lines))>>
                       \o rest.debug,
             calls |-> ex.calls \o rest.calls]

\* line 455: extracted_text[:30] + "..." if len(extracted_text) > 30 else extracted_text
display_text(extracted_text) ==
    IF Len(extracted_text) > TruncLen
    THEN SubSeq(extracted_text, 1, TruncLen) \o <<".", ".", ".">>
    ELSE extracted_text

Min2(a, b) == IF a < b THEN a ELSE b

\* lines 434-462: what is drawn for the i-th pair of zip(blk_list, text_results)
\* (i 1-based here, so the label i+1 of the code is i): the block's box, its
\* number, and the text when it is non-empty.
annotation(i, text_result) ==
    [box |-> i, label |-> i,
     has_text |-> text_result.text # <<>>,
     text |-> display_text(text_result.text)]

NoImage == [on_disk |-> FALSE, drawn |-> <<>>]

\* lines 376-501
generate_debug_image_with_text(blk_list, text_results, write) ==
    LET n == Min2(Len(blk_list), Len(text_results))
        drawn == [i \in 1..n |-> annotation(i, text_results[i])]
    IN CASE write = "written" ->
                [path |-> TRUE, image |-> [on_disk |-> TRUE, drawn |-> drawn],
                 debug |-> <<DebugEntry("image_saved", 0, 0)>>]
         [] write \in {"imwrite_false", "missing"} ->
                [path |-> FALSE, image |-> NoImage,
                 debug |-> <<DebugEntry("image_save_failed", 0, 0)>>]
         [] OTHER ->
                [path |-> FALSE, image |-> NoImage,
                 debug |-> <<DebugEntry("image_generation_failed", 0, 0)>>]

\* lines 503-507
generate_debug_image(blk_list, write) ==
    generate_debug_image_with_text(blk_list, <<>>, write)

OcrRaised(msg) ==
    [raised |-> TRUE, error |-> <<"OCR detection failed: ", msg>>,
     success |-> FALSE, textBlocks |-> <<>>, debug |-> <<>>,
     debugImagePath |-> FALSE, image |-> NoImage,
     calls |-> <<>>, detector_calls |-> 0]

\* A plausible slip: the debug image is generated whatever GENERATE_DEBUG_IMAGES says.
debug_image_step_ignoring_flag(in, results) ==
    generate_debug_image_with_text(in.blk_list, results,
        IF in.generate THEN in.debug_write ELSE "written")

\* lines 348-358
debug_image_step(in, results) ==
    IF in.generate
    THEN generate_debug_image_with_text(in.blk_list, results, in.debug_write)
    ELSE [path |-> FALSE, image |-> NoImage, debug |-> <<>>]

\* lines 268-374
run_ocr_detection(in) ==
    IF ~in.models_set THEN OcrRaised("Models not initialized. Call initialize_models() first.")
    ELSE IF ~in.img_loads THEN OcrRaised("Failed to load image")
    ELSE IF ~in.detector_ok THEN [OcrRaised("text_detector error") EXCEPT !.detector_calls = 1]
    ELSE LET p == process_blocks(in.blk_list, 0)
             dbg == debug_image_step(in, p.results)
         IN [raised |-> FALSE, error |-> <<>>, success |-> TRUE,
             textBlocks |-> p.results,
             debug |-> <<DebugEntry("found", Len(in.blk_list), 0)>> \o p.debug
                       \o <<DebugEntry("final", Len(p.results), 0)>> \o dbg.debug,
             debugImagePath |-> dbg.path,
             image |-> dbg.image,
             calls |-> p.calls,
             detector_calls |-> 1]

NoOutput ==
    [raised |-> FALSE, error |-> <<>>, success |-> FALSE, textBlocks |-> <<>>,
     debug |-> <<>>, debugImagePath |-> FALSE, image |-> NoImage,
     calls |-> <<>>, detector_calls |-> 0]

OcrIdle ==
    /\ ocr_in = OcrInput(FALSE, FALSE, FALSE, <<>>, FALSE, "none")
    /\ ocr_out = NoOutput
    /\ ocr_pc = "idle"

InitOcr ==
    /\ ocr_in \in OcrInputs
    /\ ocr_out = NoOutput
    /\ ocr_pc = "input"
    /\ BBoxIdle
    /\ SvcIdle

CallRunOcrDetection ==
    /\ ocr_pc = "input"
    /\ ocr_out' = run_ocr_detection(ocr_in)
    /\ ocr_pc' = "detected"
    /\ UNCHANGED <<ocr_in, bbVars, svcVars, concVars>>

\* The legacy entry point, called with the detector's blocks and an empty
\* debug_info; it does not read GENERATE_DEBUG_IMAGES, the guard only selects
\* the inputs that carry an outcome of saving.
CallGenerateDebugImage ==
    /\ ocr_pc = "input"
    /\ ocr_in.models_set /\ ocr_in.img_loads /\ ocr_in.detector_ok
    /\ ocr_in.generate
    /\ LET g == generate_debug_image(ocr_in.blk_list, ocr_in.debug_write)
       IN ocr_out' = [NoOutput EXCEPT !.debugImagePath = g.path,
                                      !.image = g.image, !.debug = g.debug]
    /\ ocr_pc' = "legacy"
    /\ UNCHANGED <<ocr_in, bbVars, svcVars, concVars>>

NextOcr == CallRunOcrDetection \/ CallGenerateDebugImage

SpecOcr == InitOcr /\ [][NextOcr]_vars

InitBBox ==
    /\ blk \in BBoxBlocks
    /\ bbox = <<>>
    /\ bb_pc = "input"
    /\ OcrIdle
    /\ SvcIdle

CallTightBBox ==
    /\ bb_pc = "input"
    /\ bbox' = calculate_tight_bbox_from_lines(blk)
    /\ bb_pc' = "returned"
    /\ UNCHANGED <<blk, ocrVars, svcVars, concVars>>

NextBBox == CallTightBBox

SpecBBox == InitBBox /\ [][NextBBox]_vars

(***************************************************************************)
(* The service: startup, /health, /ocr/detect, /ocr/text-only              *)
(***************************************************************************)
\* What constructing the models does when initialize_models enters its try:
\*   "ok"              both constructors return
\*   "detector_fails"  an import, the model-file check or TextDetector(...) raises
\*   "ocr_fails"       TextDetector(...) returns, MangaOcr() raises
InitEnvs == {"ok", "detector_fails", "ocr_fails"}

\* lines 39-77: the globals after the call, whether it raised, what it built
initialize_models(td, mo, env) ==
    IF ~td \/ ~mo
    THEN CASE env = "detector_fails" ->
                  [text_detector |-> td, manga_ocr |-> mo, raised |-> TRUE,
                   detectors |-> 0, ocrs |-> 0]
           [] env = "ocr_fails" ->
                  [text_detector |-> TRUE, manga_ocr |-> mo, raised |-> TRUE,
                   detectors |-> 1, ocrs |-> 0]
           [] OTHER ->
                  [text_detector |-> TRUE, manga_ocr |-> TRUE, raised |-> FALSE,
                   detectors |-> 1, ocrs |-> 1]
    ELSE [text_detector |-> td, manga_ocr |-> mo, raised |-> FALSE,
          detectors |-> 0, ocrs |-> 0]

\* The globals and construction counts after initialize_models returned i.
SetModels(i) ==
    /\ text_detector' = i.text_detector
    /\ manga_ocr' = i.manga_ocr
    /\ detector_built' = detector_built + i.detectors
    /\ ocr_built' = ocr_built + i.ocrs

\* file.content_type: None is <<>>, "type/subtype" is <<type, subtype>>.
ContentTypes == {<<>>, <<"text", "plain">>, <<"image", "png">>}

\* lines 135, 172: not file.content_type or not file.content_type.startswith('image/')
not_an_image(content_type) ==
    content_type = <<>> \/ content_type[1] # "image"

\* run_ocr_detection as the handler sees it: whether it raised and why, the
\* success body's debugImagePath, and whether a failure was absorbed inside.
DetectSummary(in) ==
    LET o == run_ocr_detection(in)
        kinds == {o.debug[k].kind : k \in DOMAIN o.debug}
    IN [models_set |-> in.models_set, generate |-> in.generate,
        raised |-> o.raised,
        failure |-> IF ~in.models_set THEN "models_unset"
                    ELSE IF ~in.img_loads THEN "load"
                    ELSE IF ~in.detector_ok THEN "detector"
                    ELSE IF "line_failed" \in kinds THEN "line"
                    ELSE IF kinds \cap {"image_save_failed", "image_generation_failed"} # {}
                         THEN "debug"
                    ELSE "none",
        success |-> o.success,
        debugImagePath |-> o.debugImagePath,
        invoked |-> o.detector_calls > 0 \/ o.calls # <<>>]

DetectOutcomes == {DetectSummary(in) : in \in OcrInputs}

\* lines 227-266: run_direct_ocr, given whether manga_ocr is set, whether the
\* image loads and whether recognition raises
run_direct_ocr(mo, img_loads, ocr_ok) ==
    IF ~mo THEN [raised |-> TRUE, failure |-> "models_unset", success |-> FALSE,
                 invoked |-> FALSE]
    ELSE IF ~img_loads THEN [raised |-> TRUE, failure |-> "load", success |-> FALSE,
                             invoked |-> FALSE]
    ELSE IF ~ocr_ok THEN [raised |-> TRUE, failure |-> "ocr", success |-> FALSE,
                          invoked |-> TRUE]
    ELSE [raised |-> FALSE, failure |-> "none", success |-> TRUE, invoked |-> TRUE]

\* An exception that leaves the handler uncaught: the framework's plain 500.
Unhandled(req, failure) ==
    [req EXCEPT !.pc = "done", !.tmp = 0, !.status = 500, !.detail = "Internal Server Error",
                !.failure = failure]

\* lines 136, 173: raise HTTPException(status_code=400, detail="File must be an image")
NotAnImage(req) ==
    [req EXCEPT !.pc = "done", !.status = 400, !.detail = "File must be an image"]

\* A plausible slip: no except clause, the exception leaves the handler as it is.
ProcessingFailedUnwrapped(req, out) ==
    [req EXCEPT !.pc = "done", !.tmp = 0, !.status = 500,
                !.detail = "Internal Server Error",
                !.failure = out.failure, !.invoked = out.invoked]

\* lines 152-154, 187-189: except Exception -> HTTPException(500, "OCR processing failed: ...")
ProcessingFailed(req, out) ==
    [req EXCEPT !.pc = "done", !.tmp = 0, !.status = 500,
                !.detail = "OCR processing failed: ",
                !.failure = out.failure, !.invoked = out.invoked]

\* lines 151, 186: return result
Returned(req, out, path) ==
    [req EXCEPT !.pc = "done", !.tmp = 0, !.status = 200, !.success = out.success,
                !.debugImagePath = path, !.failure = out.failure,
                !.invoked = out.invoked]

\* A plausible slip: the temp file is removed only when processing returned.
cleanup_only_on_success(files, req, raised) ==
    IF ~raised /\ files[req.tmp] # 0 THEN [files EXCEPT ![req.tmp] = 0] ELSE files

\* lines 155-159, 190-194: finally: if os.path.exists(tmp_file_path): os.unlink(tmp_file_path)
cleanup(files, req, raised) ==
    IF files[req.tmp] # 0 THEN [files EXCEPT ![req.tmp] = 0] ELSE files

\* A plausible slip: the content type is inspected before the models are touched.
head_of_handler_check_first(req, i) ==
    IF not_an_image(req.content_type) THEN NotAnImage(req)
    ELSE IF i.raised THEN Unhandled(req, "init")
    ELSE [req EXCEPT !.pc = "reading"]

\* lines 132-136, 169-173: initialize_models() returned i (or raised), then the
\* content-type check; req goes on to save the upload when both pass.
head_of_handler(req, i) ==
    IF i.raised THEN Unhandled(req, "init")
    ELSE IF not_an_image(req.content_type) THEN NotAnImage(req)
    ELSE [req EXCEPT !.pc = "reading"]

\* lines 139, 176: NamedTemporaryFile(delete=False) creates a file under a
\* name no file has; n is that name, r the request.
create_temp_file(files, n, r) == [files EXCEPT ![n] = r]

Init ==
    /\ phase = "boot"
    /\ text_detector = FALSE /\ manga_ocr = FALSE
    /\ detector_built = 0 /\ ocr_built = 0
    /\ GENERATE_DEBUG_IMAGES \in BOOLEAN
    /\ reqs = [r \in Requests |-> NoRequest]
    /\ fs = [n \in TmpNames |-> 0]
    /\ health = NoHealth
    /\ BBoxIdle
    /\ OcrIdle
    /\ ConcIdle

\* lines 105-109: the startup handler; when it raises the server does not start.
startup_event ==
    /\ phase = "boot"
    /\ \E env \in InitEnvs :
           LET i == initialize_models(text_detector, manga_ocr, env)
           IN /\ SetModels(i)
              /\ phase' = IF i.raised THEN "exited" ELSE "running"
    /\ UNCHANGED <<GENERATE_DEBUG_IMAGES, reqs, fs, health, bbVars, ocrVars, concVars>>

\* The application object serving requests under a host that delivers no
\* lifespan startup event: the handlers then find the globals unset, the case
\* their own initialize_models() calls (lines 132-133, 169-170) are there for.
serve_without_startup ==
    /\ phase = "boot"
    /\ phase' = "running"
    /\ UNCHANGED <<modelVars, GENERATE_DEBUG_IMAGES, reqs, fs, health, bbVars, ocrVars, concVars>>

\* lines 111-120
health_response ==
    [status |-> 200, body |-> "healthy", debug_images_enabled |-> GENERATE_DEBUG_IMAGES]

\* A plausible slip: /health ensures the models like the other handlers do.
health_check_initializing ==
    /\ phase = "running"
    /\ \E env \in InitEnvs :
           SetModels(initialize_models(text_detector, manga_ocr, env))
    /\ health' = health_response
    /\ UNCHANGED <<phase, GENERATE_DEBUG_IMAGES, reqs, fs, bbVars, ocrVars, concVars>>

health_check ==
    /\ phase = "running"
    /\ health' = health_response
    /\ UNCHANGED <<phase, modelVars, GENERATE_DEBUG_IMAGES, reqs, fs, bbVars, ocrVars, concVars>>

\* lines 122-143 and 161-180 up to `await file.read()`: request r arrives at
\* endpoint e with content type ct (and original_path given or not).
handler_begin(r, e, ct, op) ==
    /\ phase = "running"
    /\ reqs[r].pc = "idle"
    /\ \E env \in InitEnvs :
           LET i == initialize_models(text_detector, manga_ocr, env)
               req == head_of_handler(
                          [NoRequest EXCEPT !.endpoint = e, !.content_type = ct,
                                            !.original_path = op,
                                            !.init_raised = i.raised], i)
           IN /\ SetModels(i)
              /\ IF req.pc = "reading"
                 THEN \E n \in TmpNames :
                          /\ fs[n] = 0
                          /\ fs' = create_temp_file(fs, n, r)
                          /\ reqs' = [reqs EXCEPT ![r] = [req EXCEPT !.tmp = n, !.created = TRUE]]
                 ELSE /\ reqs' = [reqs EXCEPT ![r] = req]
                      /\ fs' = fs
    /\ UNCHANGED <<phase, GENERATE_DEBUG_IMAGES, health, bbVars, ocrVars, concVars>>

detect_text_begin ==
    \E r \in Requests, ct \in ContentTypes, op \in BOOLEAN :
        handler_begin(r, "detect", ct, op)

extract_text_only_begin ==
    \E r \in Requests, ct \in ContentTypes :
        handler_begin(r, "text_only", ct, FALSE)

\* lines 140-142, 177-179: reading the upload or writing it raises inside the
\* with block, before the try: the file stays (delete=False).
save_upload_fails ==
    \E r \in Requests :
        /\ reqs[r].pc = "reading"
        /\ reqs' = [reqs EXCEPT ![r] = Unhandled(@, "save")]
        /\ UNCHANGED <<phase, modelVars, GENERATE_DEBUG_IMAGES, fs, health, bbVars, ocrVars, concVars>>

\* lines 140-159: the upload is saved, run_ocr_detection runs, the temp file is removed.
detect_text_finish ==
    \E r \in Requests, out \in DetectOutcomes :
        /\ reqs[r].pc = "reading" /\ reqs[r].endpoint = "detect"
        /\ out.generate = GENERATE_DEBUG_IMAGES
        /\ out.models_set = (text_detector /\ manga_ocr)
        /\ LET req == [reqs[r] EXCEPT !.saved = TRUE]
               path == IF ~out.debugImagePath THEN ""
                       ELSE IF req.original_path THEN "beside original_path"
                       ELSE "beside tmp_file_path"
           IN /\ reqs' = [reqs EXCEPT ![r] = IF out.raised THEN ProcessingFailed(req, out)
                                             ELSE Returned(req, out, path)]
              /\ fs' = cleanup(fs, req, out.raised)
        /\ UNCHANGED <<phase, modelVars, GENERATE_DEBUG_IMAGES, health, bbVars, ocrVars, concVars>>

\* lines 177-194: the upload is saved, run_direct_ocr runs, the temp file is removed.
extract_text_only_finish ==
    \E r \in Requests, img_loads \in BOOLEAN, ocr_ok \in BOOLEAN :
        /\ reqs[r].pc = "reading" /\ reqs[r].endpoint = "text_only"
        /\ LET req == [reqs[r] EXCEPT !.saved = TRUE]
               out == run_direct_ocr(manga_ocr, img_loads, ocr_ok)
           IN /\ reqs' = [reqs EXCEPT ![r] = IF out.raised THEN ProcessingFailed(req, out)
                                             ELSE Returned(req, out, "")]
              /\ fs' = cleanup(fs, req, out.raised)
        /\ UNCHANGED <<phase, modelVars, GENERATE_DEBUG_IMAGES, health, bbVars, ocrVars, concVars>>

Next ==
    \/ startup_event
    \/ serve_without_startup
    \/ health_check
    \/ detect_text_begin
    \/ extract_text_only_begin
    \/ save_upload_fails
    \/ detect_text_finish
    \/ extract_text_only_finish

Spec == Init /\ [][Next]_vars

(***************************************************************************)
(* The event loop: startup_event and the request handlers as coroutines,   *)
(* initialize_models step by step                                          *)
(***************************************************************************)
\* A plausible slip: handlers declared with plain def run in the framework's
\* thread pool, so one starts whatever else is running.
can_start_in_threadpool(running) == TRUE

\* lines 106, 123, 162: the handlers are coroutines (async def); one is started
\* or resumed only when no other coroutine is running on the event loop.
can_start(running) == running = {}

\* Positions inside initialize_models (lines 43-77).
InsideInit == {"init_guard", "build_detector", "build_ocr"}

InitConc ==
    /\ phase = "boot"
    /\ text_detector = FALSE /\ manga_ocr = FALSE
    /\ detector_built = 0 /\ ocr_built = 0
    /\ GENERATE_DEBUG_IMAGES = FALSE
    /\ reqs = [r \in Requests |-> NoRequest]
    /\ fs = [n \in TmpNames |-> 0]
    /\ health = NoHealth
    /\ BBoxIdle
    /\ OcrIdle
    /\ ConcIdle

\* lines 105-109: the host runs startup_event, which enters initialize_models.
co_startup_begin ==
    /\ phase = "boot"
    /\ tasks[0].pos = "idle"
    /\ can_start(loop)
    /\ loop' = loop \cup {0}
    /\ tasks' = [tasks EXCEPT ![0].pos = "init_guard"]
    /\ UNCHANGED <<phase, modelVars, GENERATE_DEBUG_IMAGES, reqs, fs, health, bbVars, ocrVars>>

\* The host delivers no startup event and starts serving.
co_serve_without_startup ==
    /\ phase = "boot"
    /\ tasks[0].pos = "idle"
    /\ loop = {}
    /\ phase' = "running"
    /\ UNCHANGED <<modelVars, GENERATE_DEBUG_IMAGES, reqs, fs, health, bbVars, ocrVars, concVars>>

\* lines 122-123, 161-162: a request arrives, whatever the loop is running.
co_request_arrives ==
    \E t \in Requests, e \in {"detect", "text_only"} :
        /\ phase = "running"
        /\ tasks[t].pos = "idle"
        /\ tasks' = [tasks EXCEPT ![t].pos = "queued", ![t].endpoint = e]
        /\ UNCHANGED <<phase, modelVars, GENERATE_DEBUG_IMAGES, reqs, fs, health, bbVars, ocrVars, loop>>

\* lines 132-133, 169-170: the handler starts and enters initialize_models.
co_handler_begin ==
    \E t \in Requests :
        /\ tasks[t].pos = "queued"
        /\ can_start(loop)
        /\ loop' = loop \cup {t}
        /\ tasks' = [tasks EXCEPT ![t].pos = "init_guard"]
        /\ UNCHANGED <<phase, modelVars, GENERATE_DEBUG_IMAGES, reqs, fs, health, bbVars, ocrVars>>

\* line 43: if text_detector is None or manga_ocr is None
co_init_guard ==
    \E t \in Tasks :
        /\ t \in loop
        /\ tasks[t].pos = "init_guard"
        /\ tasks' = [tasks EXCEPT ![t].pos =
                         IF ~text_detector \/ ~manga_ocr THEN "build_detector"
                         ELSE "init_returned"]
        /\ UNCHANGED <<phase, modelVars, GENERATE_DEBUG_IMAGES, reqs, fs, health, bbVars, ocrVars, loop>>

\* lines 46-66: imports, model-file check, text_detector = TextDetector(...)
co_build_detector ==
    \E t \in Tasks, ok \in BOOLEAN :
        /\ t \in loop
        /\ tasks[t].pos = "build_detector"
        /\ IF ok
           THEN /\ text_detector' = TRUE
                /\ detector_built' = detector_built + 1
                /\ tasks' = [tasks EXCEPT ![t].pos = "build_ocr"]
           ELSE /\ UNCHANGED <<text_detector, detector_built>>
                /\ tasks' = [tasks EXCEPT ![t].pos = "init_raised"]
        /\ UNCHANGED <<phase, manga_ocr, ocr_built, GENERATE_DEBUG_IMAGES, reqs, fs, health, bbVars, ocrVars, loop>>

\* lines 68-77: manga_ocr = MangaOcr()
co_build_ocr ==
    \E t \in Tasks, ok \in BOOLEAN :
        /\ t \in loop
        /\ tasks[t].pos = "build_ocr"
        /\ IF ok
           THEN /\ manga_ocr' = TRUE
                /\ ocr_built' = ocr_built + 1
                /\ tasks' = [tasks EXCEPT ![t].pos = "init_returned"]
           ELSE /\ UNCHANGED <<manga_ocr, ocr_built>>
                /\ tasks' = [tasks EXCEPT ![t].pos = "init_raised"]
        /\ UNCHANGED <<phase, text_detector, detector_built, GENERATE_DEBUG_IMAGES, reqs, fs, health, bbVars, ocrVars, loop>>

\* line 109: initialize_models returned to startup_event, or raised and the
\* server does not start.
co_startup_end ==
    /\ 0 \in loop
    /\ tasks[0].pos \in {"init_returned", "init_raised"}
    /\ phase' = IF tasks[0].pos = "init_returned" THEN "running" ELSE "exited"
    /\ tasks' = [tasks EXCEPT ![0].pos = "done"]
    /\ loop' = loop \ {0}
    /\ UNCHANGED <<modelVars, GENERATE_DEBUG_IMAGES, reqs, fs, health, bbVars, ocrVars>>

\* lines 133, 170: initialize_models raised, the exception ends the handler.
co_handler_init_raised ==
    \E t \in Requests :
        /\ t \in loop
        /\ tasks[t].pos = "init_raised"
        /\ tasks' = [tasks EXCEPT ![t].pos = "done"]
        /\ loop' = loop \ {t}
        /\ UNCHANGED <<phase, modelVars, GENERATE_DEBUG_IMAGES, reqs, fs, health, bbVars, ocrVars>>

\* lines 135-140, 172-177: the content-type check, then the temp file and
\* `await file.read()`, where the coroutine gives the loop back.
co_handler_check_and_await ==
    \E t \in Requests, ct \in ContentTypes :
        /\ t \in loop
        /\ tasks[t].pos = "init_returned"
        /\ tasks' = [tasks EXCEPT ![t].pos =
                         IF not_an_image(ct) THEN "done" ELSE "await_read"]
        /\ loop' = loop \ {t}
        /\ UNCHANGED <<phase, modelVars, GENERATE_DEBUG_IMAGES, reqs, fs, health, bbVars, ocrVars>>

\* lines 141-159, 178-194: the coroutine resumes after the read and runs
\* run_ocr_detection or run_direct_ocr to the end of the handler; it records
\* whether a model was called and what the globals were then.
co_handler_resume ==
    \E t \in Requests, img_loads \in BOOLEAN :
        /\ tasks[t].pos = "await_read"
        /\ can_start(loop)
        /\ LET called ==
                   IF tasks[t].endpoint = "detect"
                   THEN run_ocr_detection(
                            OcrInput(text_detector /\ manga_ocr, img_loads, TRUE,
                                     <<>>, FALSE, "none")).detector_calls > 0
                   ELSE run_direct_ocr(manga_ocr, img_loads, TRUE).invoked
           IN tasks' = [tasks EXCEPT ![t].pos = "done",
                                     ![t].reached = called,
                                     ![t].seen_detector = text_detector,
                                     ![t].seen_ocr = manga_ocr]
        /\ UNCHANGED <<phase, modelVars, GENERATE_DEBUG_IMAGES, reqs, fs, health, bbVars, ocrVars, loop>>

NextConc ==
    \/ co_startup_begin
    \/ co_serve_without_startup
    \/ co_request_arrives
    \/ co_handler_begin
    \/ co_init_guard
    \/ co_build_detector
    \/ co_build_ocr
    \/ co_startup_end
    \/ co_handler_init_raised
    \/ co_handler_check_and_await
    \/ co_handler_resume

SpecConc == InitConc /\ [][NextConc]_vars

\* C11: whatever the interleaving of startup_event and simultaneous
\* /ocr/detect and /ocr/text-only requests, at most one initialize_models call
\* is in progress at any time, a request past initialize_models finds both
\* globals set, and no request calls the detector or the OCR model while
\* either global is unset.
C11_InitGuardSuffices ==
    /\ Cardinality({t \in Tasks : tasks[t].pos \in InsideInit}) <= 1
    /\ \A t \in Requests :
           /\ tasks[t].pos = "await_read" => (text_detector /\ manga_ocr)
           /\ tasks[t].reached => (tasks[t].seen_detector /\ tasks[t].seen_ocr)

\* One request is inside initialize_models, after the detector was built,
\* while another request has arrived and waits for the loop.
C11_Witness ==
    \E t1, t2 \in Requests :
        /\ tasks[t1].pos = "build_ocr"
        /\ tasks[t2].pos = "queued"
        /\ text_detector /\ ~manga_ocr


(***************************************************************************)
(* Properties of the service (Spec)                                        *)
(***************************************************************************)
Done(r) == reqs[r].pc = "done"

IsImageRequest(r) == ~not_an_image(reqs[r].content_type)

\* C2: over any sequence of initialize_models calls (startup, one per request,
\* earlier attempts that failed part-way included) the text detector is
\* constructed at most once and the OCR model is constructed at most once.
C2_ModelsConstructedOnce ==
    detector_built <= 1 /\ ocr_built <= 1

\* C3 as claimed: a request whose upload has no content type, or one not
\* starting with 'image/', is answered 400 'File must be an image' in every
\* state of the service; no temp file is created and no model is invoked.
C3_NonImageAlways400 ==
    \A r \in Requests :
        (Done(r) /\ ~IsImageRequest(r)) =>
            /\ reqs[r].status = 400
            /\ reqs[r].detail = "File must be an image"
            /\ ~reqs[r].created
            /\ ~reqs[r].invoked

\* C3 as amended: such a request is answered 400 'File must be an image'
\* whenever the initialize_models call at the head of the handler returns; when
\* that call raises, the request ends with the unhandled-error 500 before the
\* content type is looked at. Either way no temp file is created and no model
\* is invoked.
C3_NonImage400UnlessInitRaises ==
    \A r \in Requests :
        (Done(r) /\ ~IsImageRequest(r)) =>
            /\ ~reqs[r].created
            /\ ~reqs[r].invoked
            /\ \A n \in TmpNames : fs[n] # r
            /\ ~reqs[r].init_raised =>
                   /\ reqs[r].status = 400
                   /\ reqs[r].detail = "File must be an image"
            /\ reqs[r].init_raised =>
                   /\ reqs[r].status = 500
                   /\ reqs[r].detail = "Internal Server Error"

\* A non-image upload answered 400 at one endpoint after another non-image
\* upload hit a failing initialisation.
C3_Witness ==
    \E r1, r2 \in Requests :
        /\ Done(r1) /\ ~IsImageRequest(r1) /\ reqs[r1].status = 400
        /\ reqs[r1].endpoint = "text_only"
        /\ Done(r2) /\ ~IsImageRequest(r2) /\ reqs[r2].init_raised
        /\ reqs[r2].status = 500

\* The temp file named n is removed in this step.
Removed(n) == fs[n] # 0 /\ fs'[n] # fs[n]

\* C4: once a request that saved its upload to a temp file has finished, with
\* a result or with an error, that file no longer exists; and a temp file is
\* only ever removed by the step that finishes the request owning it.
C4_TempFileRemovedByOwner ==
    /\ [](\A r \in Requests :
              (Done(r) /\ reqs[r].saved) => \A n \in TmpNames : fs[n] # r)
    /\ [][\A n \in TmpNames :
              Removed(n) =>
                  /\ fs'[n] = 0
                  /\ reqs[fs[n]].pc = "reading"
                  /\ reqs'[fs[n]].pc = "done"
                  /\ reqs'[fs[n]].saved]_vars

\* A request whose processing raised has finished and its file is gone, while
\* another request still holds its own temp file.
C4_Witness ==
    \E r1, r2 \in Requests :
        /\ Done(r1) /\ reqs[r1].saved /\ reqs[r1].status = 500
        /\ \A n \in TmpNames : fs[n] # r1
        /\ reqs[r2].pc = "reading" /\ fs[reqs[r2].tmp] = r2

Propagated == {"models_unset", "load", "detector", "ocr"}
BeforeTry == {"init", "save"}
Absorbed == {"line", "debug"}

\* C5 as claimed: any failure while serving an image request (initialisation,
\* image load, detector, OCR) gives a 500 whose detail begins 'OCR processing
\* failed:' and never a success body.
C5_AnyFailureIsWrapped500 ==
    \A r \in Requests :
        (Done(r) /\ IsImageRequest(r)
                 /\ reqs[r].failure \in Propagated \cup {"init", "line"}) =>
            /\ reqs[r].status = 500
            /\ reqs[r].detail = "OCR processing failed: "
            /\ ~reqs[r].success

\* C5 as amended: a failure raised out of run_ocr_detection or run_direct_ocr
\* (models unset, image not loadable, detector error, OCR error of
\* /ocr/text-only) gives a 500 whose detail begins 'OCR processing failed:';
\* a failure of initialize_models or of saving the upload happens before the
\* try and gives the unhandled-error 500 without that detail; neither returns
\* a success body. A line failure or a debug-image failure inside
\* run_ocr_detection is absorbed and the request returns its success body.
C5_FailureResponses ==
    \A r \in Requests :
        (Done(r) /\ IsImageRequest(r)) =>
            /\ reqs[r].failure \in Propagated =>
                   /\ reqs[r].status = 500
                   /\ reqs[r].detail = "OCR processing failed: "
                   /\ ~reqs[r].success
            /\ reqs[r].failure \in BeforeTry =>
                   /\ reqs[r].status = 500
                   /\ reqs[r].detail = "Internal Server Error"
                   /\ ~reqs[r].success
            /\ reqs[r].init_raised <=> reqs[r].failure = "init"
            /\ reqs[r].failure \in Absorbed \cup {"none"} =>
                   /\ reqs[r].status = 200
                   /\ reqs[r].success

\* A detector error at /ocr/detect and an OCR error at /ocr/text-only, both
\* answered with the wrapped 500.
C5_Witness ==
    \E r1, r2 \in Requests :
        /\ Done(r1) /\ reqs[r1].endpoint = "detect" /\ reqs[r1].failure = "detector"
        /\ reqs[r1].detail = "OCR processing failed: "
        /\ Done(r2) /\ reqs[r2].endpoint = "text_only" /\ reqs[r2].failure = "ocr"
        /\ reqs[r2].detail = "OCR processing failed: "

\* C7: while the service runs GET /health can always be served, answers 200
\* 'healthy' with the configured debug_images_enabled flag whether or not the
\* models are initialised, and serving it initialises no model and changes no
\* other service state.
C7_HealthIsPure ==
    /\ [](phase = "running" => ENABLED health_check)
    /\ [](health # NoHealth =>
              health = [status |-> 200, body |-> "healthy",
                        debug_images_enabled |-> GENERATE_DEBUG_IMAGES])
    /\ [][health' # health =>
              UNCHANGED <<phase, text_detector, manga_ocr, detector_built,
                          ocr_built, GENERATE_DEBUG_IMAGES, reqs, fs>>]_vars

\* /health answered while no model was ever built, after a request whose
\* initialisation failed.
C7_Witness ==
    /\ phase = "running"
    /\ health.status = 200
    /\ ~text_detector /\ ~manga_ocr /\ detector_built = 0
    /\ \E r \in Requests : Done(r) /\ reqs[r].init_raised

\* Every point of every line polygon of a block.
PointsOf(b) ==
    UNION {{b.lines[i][j] : j \in DOMAIN b.lines[i]} : i \in DOMAIN b.lines}

\* C1: calculate_tight_bbox_from_lines returns (x_min, y_min, x_max, y_max), the
\* minimal axis-aligned rectangle enclosing every point of every line polygon of
\* the block (it encloses all points and each side touches one); a block with
\* no lines, or whose lines hold no points, gets blk.xyxy back unchanged.
C1_TightBBoxIsMinimalEnclosure ==
    bb_pc = "returned" =>
        LET P == PointsOf(blk)
        IN IF P = {} THEN bbox = blk.xyxy
           ELSE /\ Len(bbox) = 4
                /\ \A p \in P : /\ bbox[1] <= p[1] /\ p[1] <= bbox[3]
                                /\ bbox[2] <= p[2] /\ p[2] <= bbox[4]
                /\ \E p \in P : p[1] = bbox[1]
                /\ \E p \in P : p[2] = bbox[2]
                /\ \E p \in P : p[1] = bbox[3]
                /\ \E p \in P : p[2] = bbox[4]

\* A block of two line polygons whose second line widens the box beyond the
\* first line.
C1_Witness ==
    /\ bb_pc = "returned"
    /\ Len(blk.lines) = 2
    /\ PointsOf(blk) # {}
    /\ bbox # blk.xyxy
    /\ bbox[3] > np_max(blk.lines[1], 1)

(***************************************************************************)
(* Properties of run_ocr_detection and the debug image (SpecOcr)           *)
(***************************************************************************)
\* The call of run_ocr_detection got past model check, image load and detection.
Detected ==
    /\ ocr_pc = "detected"
    /\ ocr_in.models_set /\ ocr_in.img_loads /\ ocr_in.detector_ok

FailedOutcomes == {"crop_error", "ocr_error"}

\* How many entries of a debug log equal e.
CountEntries(log, e) == Cardinality({k \in DOMAIN log : log[k] = e})

\* C6: every debug image written (by generate_debug_image_with_text or by the
\* legacy generate_debug_image) shows, for every block of blk_list, its box and
\* its 1-based index, and the recognised text of every block whose text is
\* non-empty.
C6_DebugImageAnnotatesEveryBlock ==
    ocr_out.image.on_disk =>
        \A i \in DOMAIN ocr_in.blk_list :
            \E j \in DOMAIN ocr_out.image.drawn :
                LET a == ocr_out.image.drawn[j]
                IN /\ a.box = i
                   /\ a.label = i
                   /\ (ocr_pc = "detected" /\ ocr_out.textBlocks[i].text # <<>>)
                          => (a.has_text /\ a.text = ocr_out.textBlocks[i].text)

\* C8: a line whose crop, rotation or recognition fails does not abort
\* run_ocr_detection: it contributes "" to text_lines and exactly one entry to
\* the debug log, the lines after it are still recognised, and for every
\* returned block len(text_lines) = 'lines' = the number of lines the detector
\* gave for the block.
C8_LineFailureIsAbsorbed ==
    Detected =>
        /\ ~ocr_out.raised /\ ocr_out.success
        /\ Len(ocr_out.textBlocks) = Len(ocr_in.blk_list)
        /\ \A i \in DOMAIN ocr_in.blk_list :
               LET b == ocr_in.blk_list[i]
                   r == ocr_out.textBlocks[i]
               IN /\ Len(r.text_lines) = r.lines
                  /\ r.lines = Len(b.lines)
                  /\ \A j \in DOMAIN b.lines :
                         /\ b.lines[j] \in FailedOutcomes =>
                                /\ r.text_lines[j] = <<>>
                                /\ CountEntries(ocr_out.debug,
                                       DebugEntry("line_failed", j - 1, i)) = 1
                         /\ b.lines[j] \notin FailedOutcomes =>
                                /\ CountEntries(ocr_out.debug,
                                       DebugEntry("line_failed", j - 1, i)) = 0
                         /\ b.lines[j] = "text" => r.text_lines[j] # <<>>

\* A block whose first line fails and whose second line is still recognised.
C8_Witness ==
    /\ Detected
    /\ \E i \in DOMAIN ocr_in.blk_list :
           LET b == ocr_in.blk_list[i]
           IN /\ Len(b.lines) >= 2
              /\ b.lines[1] \in FailedOutcomes
              /\ b.lines[2] = "text"
              /\ ocr_out.textBlocks[i].text_lines[1] = <<>>
              /\ ocr_out.textBlocks[i].text_lines[2] # <<>>

\* C9: a line crop reaches manga_ocr rotated 90 degrees clockwise exactly when
\* its block is vertical and unrotated when the block is horizontal, and every
\* line is passed to manga_ocr at most once (exactly once unless cropping
\* failed).
C9_RotatedIffVertical ==
    Detected =>
        /\ \A k \in DOMAIN ocr_out.calls :
               LET c == ocr_out.calls[k]
               IN /\ c.blk + 1 \in DOMAIN ocr_in.blk_list
                  /\ c.rot = (IF ocr_in.blk_list[c.blk + 1].vertical THEN 90 ELSE 0)
        /\ \A i \in DOMAIN ocr_in.blk_list :
               \A j \in DOMAIN ocr_in.blk_list[i].lines :
                   Cardinality({k \in DOMAIN ocr_out.calls :
                                    /\ ocr_out.calls[k].blk = i - 1
                                    /\ ocr_out.calls[k].line = j - 1})
                       = (IF ocr_in.blk_list[i].lines[j] = "crop_error" THEN 0 ELSE 1)

\* A vertical and a horizontal block, each with a line that reached manga_ocr.
C9_Witness ==
    /\ Detected
    /\ \E k \in DOMAIN ocr_out.calls : ocr_out.calls[k].rot = 90
    /\ \E k \in DOMAIN ocr_out.calls : ocr_out.calls[k].rot = 0

\* C10: debug-image generation never fails a request. With
\* GENERATE_DEBUG_IMAGES false nothing is written and the response has no
\* debugImagePath; with it true the response has debugImagePath exactly when
\* the image was written and exists on disk; an error during generation gives
\* a success response without debugImagePath and a failure entry in 'debug'.
C10_DebugImageIsOptional ==
    Detected =>
        /\ ~ocr_out.raised /\ ocr_out.success
        /\ ~ocr_in.generate =>
               /\ ~ocr_out.image.on_disk
               /\ ~ocr_out.debugImagePath
               /\ \A k \in DOMAIN ocr_out.debug :
                      ocr_out.debug[k].kind \in {"found", "line_failed", "block", "final"}
        /\ ocr_in.generate =>
               /\ ocr_out.debugImagePath <=> ocr_in.debug_write = "written"
               /\ ocr_out.image.on_disk <=> ocr_in.debug_write = "written"
               /\ ocr_in.debug_write = "error" =>
                      CountEntries(ocr_out.debug,
                          DebugEntry("image_generation_failed", 0, 0)) = 1

\* Generation raised on a page with detected blocks; the request still succeeded.
C10_Witness ==
    /\ Detected
    /\ ocr_in.generate /\ ocr_in.debug_write = "error"
    /\ Len(ocr_in.blk_list) > 0
    /\ ocr_out.success /\ ~ocr_out.debugImagePath

====
